---- MODULE Spec2Model ----
(***************************************************************************)
(* A model of the prettytable Go package (deny-7/prettytable): the Table   *)
(* type, its mutation operations, its display configuration and its        *)
(* renderers.                                                              *)
(*                                                                         *)
(* Conventions.                                                            *)
(*   - A Go string is a sequence of bytes (its UTF-8 encoding).            *)
(*   - A Go `any` cell is a record [kind, n, s]: an int n or a string s.   *)
(*   - A slice is a sequence; indices of the source are 0-based and are    *)
(*     kept 0-based here (idx = -1 means "not found"), element idx of a    *)
(*     slice s being s[idx + 1].                                           *)
(*   - Every slice handed to the table by a caller is a fresh one: callers *)
(*     do not keep writing through a slice they have passed in, and do not *)
(*     pass the same backing array twice.                                  *)
(***************************************************************************)
EXTENDS Integers, Sequences, FiniteSets, TLC

(***************************************************************************)
(* Bounds of the model.                                                    *)
(***************************************************************************)
MaxRows == 2
MaxCols == 2
MaxSortRows == 3
MaxPadWidth == 6
MaxFormatRows == 1
MaxEscapeLen == 2
MaxRecords == 3

(***************************************************************************)
(* Cell values and fmt.Sprintf("%v", cell).                                *)
(***************************************************************************)
IntVal(n) == [kind |-> "int", n |-> n, s |-> <<>>]
StrVal(s) == [kind |-> "string", n |-> 0, s |-> s]

\* The cells callers put into tables: the ints 9 and 10.
Values == {IntVal(9), IntVal(10)}

\* The field names callers use: "A" and "B".
NameA == <<65>>
NameB == <<66>>
Names == {NameA, NameB}

RECURSIVE Digits(_)
Digits(n) == IF n < 10 THEN <<48 + n>> ELSE Digits(n \div 10) \o <<48 + (n % 10)>>

\* strconv's base-10 text of an int, as %v prints it.
FormatInt(n) == IF n < 0 THEN <<45>> \o Digits(-n) ELSE Digits(n)

\* fmt.Sprintf("%v", v): a string passes through, an int is printed base 10.
Sprintf(v) == IF v.kind = "int" THEN FormatInt(v.n) ELSE v.s

\* Go's < on strings: lexicographic comparison of the bytes.
RECURSIVE StrLess(_, _)
StrLess(a, b) ==
    IF b = <<>> THEN FALSE
    ELSE IF a = <<>> THEN TRUE
    ELSE IF a[1] # b[1] THEN a[1] < b[1]
    ELSE StrLess(Tail(a), Tail(b))

(***************************************************************************)
(* Sequences of bounded length over a set.                                 *)
(***************************************************************************)
SeqsUpTo(S, n) == UNION {[1..k -> S] : k \in 0..n}

\* append(s[:idx], s[idx+1:]...): s without its element idx (0-based).
RemoveAt(s, idx) == SubSeq(s, 1, idx) \o SubSeq(s, idx + 2, Len(s))

(***************************************************************************)
(* The state: the fields of Table, and the last call made with its result: *)
(* call is the name of the operation, err the error it returned ("nil" for *)
(* none) and out what a renderer returned. sortTie is the order in which   *)
(* the sort.Slice of this build leaves rows its less does not separate: it *)
(* is not known, and it is the same on every call.                         *)
(***************************************************************************)
VARIABLES fieldNames, rows, alignments, sortBy, reverseSort, rowFilter,
          sortTie, call, err, out

table == <<fieldNames, rows>>
config == <<alignments, sortBy, reverseSort, rowFilter>>
vars == <<fieldNames, rows, alignments, sortBy, reverseSort, rowFilter,
          sortTie, call, err, out>>

AlignLeft == 0
AlignCenter == 1
AlignRight == 2

\* What a caller may pass.
RowInputs == SeqsUpTo(Values, MaxCols)
ColumnInputs == SeqsUpTo(Values, MaxRows)
FieldInputs == SeqsUpTo(Names, MaxCols)
IndexInputs == (0 - 1)..MaxRows

NoOutput == [panic |-> FALSE, text |-> <<>>]

\* The zero value of Table's display configuration (&Table{...}).
ZeroConfig ==
    /\ alignments = {}
    /\ sortBy = <<>>
    /\ reverseSort = FALSE
    /\ rowFilter = "nil"

\* NewTable()
NewTable ==
    /\ fieldNames = <<>>
    /\ rows = <<>>
    /\ ZeroConfig
    /\ call = "NewTable"
    /\ err = "nil"
    /\ out = NoOutput

\* NewTableWithFields(fields)
NewTableWithFields(fields) ==
    /\ fieldNames = fields
    /\ rows = <<>>
    /\ ZeroConfig
    /\ call = "NewTableWithFields"
    /\ err = "nil"
    /\ out = NoOutput

(***************************************************************************)
(* The mutation layer.                                                     *)
(***************************************************************************)

\* AddRow's check: field names are set and the row's length differs.
AddRowFailsAlways(row) == Len(row) # Len(fieldNames)
AddRowFails(row) == Len(fieldNames) > 0 /\ Len(row) # Len(fieldNames)

\* AddRow(row) on a table that is let grow to cap rows.
AddRowUpTo(row, cap) ==
    /\ call' = "AddRow"
    /\ out' = NoOutput
    /\ IF AddRowFails(row)
       THEN /\ err' = "ColumnCountMismatch"
            /\ UNCHANGED table
       ELSE /\ Len(rows) < cap
            /\ err' = "nil"
            /\ rows' = Append(rows, row)
            /\ UNCHANGED fieldNames
    /\ UNCHANGED <<config, sortTie>>

AddRow(row) == AddRowUpTo(row, MaxRows)

\* AddColumn's check: rows exist and the column's length differs from their count.
AddColumnFails(column) == Len(rows) > 0 /\ Len(column) # Len(rows)

\* The rows after a successful AddColumn.
AddColumnRowsFirstOnly(column) ==
    IF Len(rows) = 0
    THEN [i \in 1..Len(column) |-> <<column[i]>>]
    ELSE [i \in 1..Len(rows) |-> IF i = 1 THEN Append(rows[i], column[i]) ELSE rows[i]]
AddColumnRowsNoCreate(column) ==
    [i \in 1..Len(rows) |-> Append(rows[i], column[i])]
AddColumnRows(column) ==
    IF Len(rows) = 0
    THEN [i \in 1..Len(column) |-> <<column[i]>>]
    ELSE [i \in 1..Len(column) |-> Append(rows[i], column[i])]

AddColumnNameFirst(field, column) ==
    /\ call' = "AddColumn"
    /\ out' = NoOutput
    /\ Len(fieldNames) < MaxCols
    /\ \A i \in 1..Len(rows) : Len(rows[i]) < MaxCols
    /\ fieldNames' = Append(fieldNames, field)
    /\ IF AddColumnFails(column)
       THEN /\ err' = "ColumnCountMismatch"
            /\ UNCHANGED rows
       ELSE /\ err' = "nil"
            /\ rows' = AddColumnRows(column)
    /\ UNCHANGED <<config, sortTie>>

AddColumn(field, column) ==
    /\ call' = "AddColumn"
    /\ out' = NoOutput
    /\ IF AddColumnFails(column)
       THEN /\ err' = "ColumnCountMismatch"
            /\ UNCHANGED table
       ELSE /\ Len(fieldNames) < MaxCols
            /\ \A i \in 1..Len(rows) : Len(rows[i]) < MaxCols
            /\ err' = "nil"
            /\ fieldNames' = Append(fieldNames, field)
            /\ rows' = AddColumnRows(column)
    /\ UNCHANGED <<config, sortTie>>

\* DelRow's check.
DelRowFailsOffByOne(index) == index < 0 \/ index > Len(rows)
DelRowFailsByShown(index) ==
    \/ index < 0
    \/ index >= Cardinality({i \in 1..Len(rows) :
                    rowFilter = "nil" \/ (Len(rows[i]) > 0 /\ rows[i][1] = IntVal(10))})
DelRowFails(index) == index < 0 \/ index >= Len(rows)

DelRow(index) ==
    /\ call' = "DelRow"
    /\ out' = NoOutput
    /\ IF DelRowFails(index)
       THEN /\ err' = "IndexOutOfRange"
            /\ UNCHANGED table
       ELSE /\ err' = "nil"
            /\ rows' = RemoveAt(rows, index)
            /\ UNCHANGED fieldNames
    /\ UNCHANGED <<config, sortTie>>

\* The loop of DelColumn (and of the renderers' sort): the index of the first
\* name equal to field, -1 when there is none.
IndexOfLast(names, field) ==
    IF \E i \in 1..Len(names) : names[i] = field
    THEN (CHOOSE i \in 1..Len(names) :
            /\ names[i] = field
            /\ \A j \in 1..Len(names) : names[j] = field => j <= i) - 1
    ELSE 0 - 1
IndexOf(names, field) ==
    IF \E i \in 1..Len(names) : names[i] = field
    THEN (CHOOSE i \in 1..Len(names) :
            /\ names[i] = field
            /\ \A j \in 1..(i - 1) : names[j] # field) - 1
    ELSE 0 - 1

\* The rows after DelColumn removed column idx: a row too short to have it is kept.
DelColumnRowsClearsShort(idx) ==
    [i \in 1..Len(rows) |->
        IF idx < Len(rows[i]) THEN RemoveAt(rows[i], idx) ELSE <<>>]
DelColumnRows(idx) ==
    [i \in 1..Len(rows) |->
        IF idx < Len(rows[i]) THEN RemoveAt(rows[i], idx) ELSE rows[i]]

DelColumn(field) ==
    /\ call' = "DelColumn"
    /\ out' = NoOutput
    /\ LET idx == IndexOf(fieldNames, field) IN
       IF idx = 0 - 1
       THEN /\ err' = "ColumnNotFound"
            /\ UNCHANGED table
       ELSE /\ err' = "nil"
            /\ fieldNames' = RemoveAt(fieldNames, idx)
            /\ rows' = DelColumnRows(idx)
    /\ UNCHANGED <<config, sortTie>>

ClearRowsDropsFields ==
    /\ call' = "ClearRows"
    /\ out' = NoOutput
    /\ err' = "nil"
    /\ rows' = <<>>
    /\ fieldNames' = <<>>
    /\ UNCHANGED <<config, sortTie>>
ClearRows ==
    /\ call' = "ClearRows"
    /\ out' = NoOutput
    /\ err' = "nil"
    /\ rows' = <<>>
    /\ UNCHANGED <<fieldNames, config, sortTie>>

ClearResetsConfig ==
    /\ call' = "Clear"
    /\ out' = NoOutput
    /\ err' = "nil"
    /\ rows' = <<>>
    /\ fieldNames' = <<>>
    /\ alignments' = {}
    /\ sortBy' = <<>>
    /\ reverseSort' = FALSE
    /\ rowFilter' = "nil"
    /\ UNCHANGED sortTie

Clear ==
    /\ call' = "Clear"
    /\ out' = NoOutput
    /\ err' = "nil"
    /\ rows' = <<>>
    /\ fieldNames' = <<>>
    /\ UNCHANGED <<config, sortTie>>

(***************************************************************************)
(* The display configuration.                                              *)
(***************************************************************************)

\* The row predicates callers install: nil (none), or "first10", which keeps the
\* rows whose first cell is the int 10 (and is defined on every row).
Predicates == {"first10"}
CallFilter(filter, row) ==
    CASE filter = "first10" -> Len(row) > 0 /\ row[1] = IntVal(10)
      [] OTHER -> TRUE

SetFieldNames(fields) ==
    /\ call' = "SetFieldNames"
    /\ out' = NoOutput
    /\ err' = "nil"
    /\ fieldNames' = fields
    /\ UNCHANGED <<rows, config, sortTie>>

\* t.alignments[field] = align, alignments being the set of the map's entries.
MapPut(m, field, align) == {e \in m : e[1] # field} \cup {<<field, align>>}

SetAlign(field, align) ==
    /\ call' = "SetAlign"
    /\ out' = NoOutput
    /\ err' = "nil"
    /\ alignments' = MapPut(alignments, field, align)
    /\ UNCHANGED <<table, sortBy, reverseSort, rowFilter, sortTie>>

SetAlignAll(align) ==
    /\ call' = "SetAlignAll"
    /\ out' = NoOutput
    /\ err' = "nil"
    /\ alignments' =
         {e \in alignments : \A i \in 1..Len(fieldNames) : fieldNames[i] # e[1]}
         \cup {<<fieldNames[i], align>> : i \in 1..Len(fieldNames)}
    /\ UNCHANGED <<table, sortBy, reverseSort, rowFilter, sortTie>>

SetSortBy(field, reverse) ==
    /\ call' = "SetSortBy"
    /\ out' = NoOutput
    /\ err' = "nil"
    /\ sortBy' = field
    /\ reverseSort' = reverse
    /\ UNCHANGED <<table, alignments, rowFilter, sortTie>>

SetRowFilter(filter) ==
    /\ call' = "SetRowFilter"
    /\ out' = NoOutput
    /\ err' = "nil"
    /\ rowFilter' = filter
    /\ UNCHANGED <<table, alignments, sortBy, reverseSort, sortTie>>

(***************************************************************************)
(* The query pipeline of RenderASCII and RenderUnicode: filter, then sort. *)
(***************************************************************************)

\* The rows the filter keeps, in their order.
FilteredAll == rows
Filtered ==
    IF rowFilter = "nil" THEN rows
    ELSE SelectSeq(rows, LAMBDA r : CallFilter(rowFilter, r))

\* The column to sort by: -1 when no key is set or no field has its name.
SortIdxOrFirst ==
    IF sortBy = <<>> THEN -1
    ELSE IF IndexOf(fieldNames, sortBy) = -1 THEN 0
    ELSE IndexOf(fieldNames, sortBy)
SortIdx == IF sortBy = <<>> THEN -1 ELSE IndexOf(fieldNames, sortBy)

\* The less function handed to sort.Slice, on two rows.
LessAscendingOnly(ri, rj, idx) ==
    StrLess(Sprintf(ri[idx + 1]), Sprintf(rj[idx + 1]))
Less(ri, rj, idx) ==
    LET si == Sprintf(ri[idx + 1])
        sj == Sprintf(rj[idx + 1])
    IN  IF reverseSort THEN StrLess(sj, si) ELSE StrLess(si, sj)

\* less reads cell idx of the rows it compares, and with two rows or more every
\* row is compared: a row without cell idx is an index out of range.
SortPanics(rs, idx) == Len(rs) >= 2 /\ \E i \in 1..Len(rs) : Len(rs[i]) <= idx

\* The ways sort.Slice may break ties: a rank for each position of its input.
TieOrders == {t \in [1..MaxRows -> 1..MaxRows] : \A i, j \in 1..MaxRows : t[i] = t[j] => i = j}
StableTie == [i \in 1..MaxRows |-> i]
TieOrdersOf(n) == {t \in [1..n -> 1..n] : \A i, j \in 1..n : t[i] = t[j] => i = j}

\* sort.Slice(rs, less): rs ordered by less. sort.Slice is not a stable sort:
\* rows that less does not order come out in an order its contract leaves
\* open, here the order of their ranks in tie.
SortSlice(rs, idx, tie) ==
    LET n == Len(rs)
        Before(i, j) ==
            \/ Less(rs[i], rs[j], idx)
            \/ (~Less(rs[j], rs[i], idx) /\ tie[i] < tie[j])
        Pos(i) == 1 + Cardinality({j \in (1..n) \ {i} : Before(j, i)})
    IN  [k \in 1..n |-> rs[CHOOSE i \in 1..n : Pos(i) = k]]

\* The rows RenderASCII and RenderUnicode go on with, or the panic of the sort.
WorkingRows(tie) ==
    LET idx == SortIdx IN
    IF idx = -1 THEN [panic |-> FALSE, rows |-> Filtered]
    ELSE IF SortPanics(Filtered, idx) THEN [panic |-> TRUE, rows |-> <<>>]
    ELSE [panic |-> FALSE, rows |-> SortSlice(Filtered, idx, tie)]

\* What the sort leaves in t.rows: it sorts a copy (make, copy), not t.rows.
StoredRowsSortedInPlace(sorted) ==
    IF rowFilter = "nil" /\ SortIdx # -1 THEN sorted ELSE rows
StoredRows(sorted) == rows

(***************************************************************************)
(* Text helpers.                                                           *)
(***************************************************************************)
RECURSIVE Flatten(_)
Flatten(ss) == IF Len(ss) = 0 THEN <<>> ELSE Head(ss) \o Flatten(Tail(ss))

\* strings.Repeat(s, n)
RECURSIVE Repeat(_, _)
Repeat(s, n) == IF n <= 0 THEN <<>> ELSE s \o Repeat(s, n - 1)

\* strings.ReplaceAll(s, old, new) for a one-byte old.
RECURSIVE ReplaceAll(_, _, _)
ReplaceAll(s, old, new) ==
    IF Len(s) = 0 THEN <<>>
    ELSE (IF Head(s) = old THEN new ELSE <<Head(s)>>) \o ReplaceAll(Tail(s), old, new)

MaxOf(S) == CHOOSE m \in S : \A x \in S : x <= m

\* len(s): the number of bytes.
ByteWidth(s) == Len(s)

\* runeWidth(s) = len([]rune(s)): the number of code points of valid UTF-8,
\* which is the number of bytes that are not continuation bytes (0x80..0xBF).
runeWidth(s) == Cardinality({i \in 1..Len(s) : s[i] < 128 \/ s[i] > 191})

\* The alignment of a column: the map's entry for its name, AlignLeft without one.
AlignOfAnyEntry(name) ==
    IF alignments # {} THEN (CHOOSE e \in alignments : TRUE)[2] ELSE AlignLeft
AlignOf(name) ==
    IF \E e \in alignments : e[1] = name
    THEN (CHOOSE e \in alignments : e[1] = name)[2]
    ELSE AlignLeft

\* The switch of padAlign and padAlignUnicode on a text short of pad columns.
PadOddLeft(s, pad, align) ==
    IF pad <= 0 THEN s
    ELSE IF align = AlignRight THEN Repeat(<<32>>, pad) \o s
    ELSE IF align = AlignCenter
         THEN LET right == pad \div 2
                  left == pad - right
              IN  Repeat(<<32>>, left) \o s \o Repeat(<<32>>, right)
    ELSE s \o Repeat(<<32>>, pad)
Pad(s, pad, align) ==
    IF pad <= 0 THEN s
    ELSE IF align = AlignRight THEN Repeat(<<32>>, pad) \o s
    ELSE IF align = AlignCenter
         THEN LET left == pad \div 2
                  right == pad - left
              IN  Repeat(<<32>>, left) \o s \o Repeat(<<32>>, right)
    ELSE s \o Repeat(<<32>>, pad)

padAlign(s, w, align) == Pad(s, w - Len(s), align)
padAlignUnicode(s, w, align) == Pad(s, w - runeWidth(s), align)

(***************************************************************************)
(* RenderASCII and RenderUnicode.                                          *)
(***************************************************************************)
NoFields == <<40, 110, 111, 32, 102, 105, 101, 108, 100, 115, 41>>  \* "(no fields)"
Panic == [panic |-> TRUE, text |-> <<>>]
Returns(text) == [panic |-> FALSE, text |-> text]

\* colWidths[i] is indexed with every cell's position: a row longer than the
\* field names is an index out of range.
WidthPanics(rs) == \E r \in 1..Len(rs) : Len(rs[r]) > Len(fieldNames)

\* colWidths after the loops over the names and the cells of rs.
ColWidthsOfStored(rs, unicode) ==
    LET Width(s) == IF unicode THEN runeWidth(s) ELSE ByteWidth(s) IN
    [c \in 1..Len(fieldNames) |->
        MaxOf({Width(fieldNames[c])} \cup
              {Width(Sprintf(rows[r][c])) : r \in {q \in 1..Len(rows) : c <= Len(rows[q])}})]
ColWidths(rs, unicode) ==
    LET Width(s) == IF unicode THEN runeWidth(s) ELSE ByteWidth(s) IN
    [c \in 1..Len(fieldNames) |->
        MaxOf({Width(fieldNames[c])} \cup
              {Width(Sprintf(rs[r][c])) : r \in {q \in 1..Len(rs) : c <= Len(rs[q])}})]

\* line(sep, fill) of RenderASCII.
LineASCIINarrow(w, sep, fill) ==
    sep \o Flatten([c \in 1..Len(w) |-> Repeat(fill, w[c] + 1) \o sep])
LineASCII(w, sep, fill) ==
    sep \o Flatten([c \in 1..Len(w) |-> Repeat(fill, w[c] + 2) \o sep])

\* line(left, mid, right, sep) of RenderUnicode.
LineUnicode(w, left, mid, right, sep) ==
    left \o Flatten([c \in 1..Len(w) |->
                       Repeat(mid, w[c] + 2) \o (IF c < Len(w) THEN sep ELSE <<>>)])
         \o right

\* The header line and a data line: bar, then each cell padded between a
\* space and " " + bar, then a newline.
CellsLine(texts, w, bar, unicode) ==
    LET PadFn(s, width, align) ==
            IF unicode THEN padAlignUnicode(s, width, align)
            ELSE padAlign(s, width, align)
    IN
    bar \o Flatten([c \in 1..Len(texts) |->
                      <<32>> \o PadFn(texts[c], w[c], AlignOf(fieldNames[c]))
                             \o <<32>> \o bar])
        \o <<10>>

RowTexts(row) == [c \in 1..Len(row) |-> Sprintf(row[c])]

ASCIIText(rs) ==
    LET w == ColWidths(rs, FALSE)
        border == LineASCII(w, <<43>>, <<45>>)
    IN  border \o <<10>>
        \o CellsLine(fieldNames, w, <<124>>, FALSE)
        \o border \o <<10>>
        \o Flatten([r \in 1..Len(rs) |-> CellsLine(RowTexts(rs[r]), w, <<124>>, FALSE)])
        \o border

UnicodeText(rs) ==
    LET w == ColWidths(rs, TRUE)
        top == LineUnicode(w, <<226, 148, 140>>, <<226, 148, 128>>,
                           <<226, 148, 144>>, <<226, 148, 172>>)
        mid == LineUnicode(w, <<226, 148, 156>>, <<226, 148, 128>>,
                           <<226, 148, 164>>, <<226, 148, 188>>)
        bot == LineUnicode(w, <<226, 148, 148>>, <<226, 148, 128>>,
                           <<226, 148, 152>>, <<226, 148, 180>>)
        bar == <<226, 148, 130>>
    IN  top \o <<10>>
        \o CellsLine(fieldNames, w, bar, TRUE)
        \o mid \o <<10>>
        \o Flatten([r \in 1..Len(rs) |->
                      CellsLine(RowTexts(rs[r]), w, bar, TRUE)])
        \o bot

\* A width-based renderer: the placeholder without fields, else the pipeline,
\* the widths and the text, or the panic of an index out of range.
RenderBoxed(tie, unicode) ==
    IF Len(fieldNames) = 0 THEN Returns(NoFields)
    ELSE LET work == WorkingRows(tie) IN
         IF work.panic \/ WidthPanics(work.rows) THEN Panic
         ELSE Returns(IF unicode THEN UnicodeText(work.rows) ELSE ASCIIText(work.rows))

RenderASCII(tie) == RenderBoxed(tie, FALSE)
RenderUnicode(tie) == RenderBoxed(tie, TRUE)

(***************************************************************************)
(* The renderers that read t.fieldNames and t.rows directly. Each text is  *)
(* a function of the names and of the rows it is given; the renderer gives *)
(* it t.rows.                                                              *)
(***************************************************************************)

\* RenderMarkdown: strings.TrimRight(s, "\n").
RECURSIVE TrimRightNewlines(_)
TrimRightNewlines(s) ==
    IF Len(s) > 0 /\ s[Len(s)] = 10 THEN TrimRightNewlines(SubSeq(s, 1, Len(s) - 1))
    ELSE s

MarkdownText(names, rs) ==
    TrimRightNewlines(
        <<124, 32>>
        \o Flatten([c \in 1..Len(names) |-> names[c] \o <<32, 124, 32>>])
        \o <<10, 124, 32>>
        \o Flatten([c \in 1..Len(names) |-> <<45, 45, 45, 32, 124, 32>>])
        \o <<10>>
        \o Flatten([r \in 1..Len(rs) |->
              <<124, 32>>
              \o Flatten([c \in 1..Len(rs[r]) |-> Sprintf(rs[r][c]) \o <<32, 124, 32>>])
              \o <<10>>]))

RenderMarkdown ==
    IF Len(fieldNames) = 0 THEN Returns(NoFields)
    ELSE Returns(MarkdownText(fieldNames, rows))

\* encoding/csv, Writer.fieldNeedsQuotes with Comma ',': a field holding a
\* comma, a quote, CR or LF, or starting with a space character, or being \. .
csvNeedsQuotes(f) ==
    /\ Len(f) > 0
    /\ \/ f = <<92, 46>>
       \/ \E i \in 1..Len(f) : f[i] \in {10, 13, 34, 44}
       \/ f[1] \in {9, 10, 11, 12, 13, 32}

\* A field as Writer.Write writes it: quoted, with its quotes doubled, if needed.
csvField(f) ==
    IF csvNeedsQuotes(f) THEN <<34>> \o ReplaceAll(f, 34, <<34, 34>>) \o <<34>>
    ELSE f

\* Writer.Write(record): the fields separated by commas, then a newline.
csvRecord(rec) ==
    Flatten([c \in 1..Len(rec) |-> (IF c > 1 THEN <<44>> ELSE <<>>) \o csvField(rec[c])])
    \o <<10>>

CSVText(names, rs) ==
    csvRecord(names) \o Flatten([r \in 1..Len(rs) |-> csvRecord(RowTexts(rs[r]))])

RenderCSV == Returns(CSVText(fieldNames, rows))

\* encoding/json: a string between quotes, with ", \, <, >, & and the control
\* bytes escaped (Marshal escapes for HTML).
HexDigit(d) == IF d < 10 THEN 48 + d ELSE 87 + d
jsonByte(b) ==
    CASE b = 34 -> <<92, 34>>
      [] b = 92 -> <<92, 92>>
      [] b = 10 -> <<92, 110>>
      [] b = 13 -> <<92, 114>>
      [] b = 9 -> <<92, 116>>
      [] b \in {38, 60, 62} \/ b < 32 ->
            <<92, 117, 48, 48, HexDigit(b \div 16), HexDigit(b % 16)>>
      [] OTHER -> <<b>>
jsonString(s) == <<34>> \o Flatten([i \in 1..Len(s) |-> jsonByte(s[i])]) \o <<34>>

\* A cell as json.Marshal writes it: an int as a number, a string as a string.
jsonValue(v) == IF v.kind = "int" THEN FormatInt(v.n) ELSE jsonString(v.s)

\* The map RenderJSON builds of a row: for each name j with a cell, the cell;
\* a later column of the same name overwrites an earlier one.
jsonKeys(names, row) == {names[j] : j \in {k \in 1..Len(names) : k <= Len(row)}}
jsonCell(names, row, key) ==
    row[MaxOf({j \in 1..Len(names) : j <= Len(row) /\ names[j] = key})]

\* The keys of a map in the order json.Marshal writes them: sorted.
RECURSIVE SortedKeys(_)
SortedKeys(K) ==
    IF K = {} THEN <<>>
    ELSE LET least == CHOOSE k \in K : \A x \in K \ {k} : StrLess(k, x)
         IN  <<least>> \o SortedKeys(K \ {least})

\* MarshalIndent(objs, "", "  ") of one object at depth 1.
jsonObject(names, row) ==
    LET keys == SortedKeys(jsonKeys(names, row)) IN
    IF Len(keys) = 0 THEN <<123, 125>>
    ELSE <<123, 10>>
         \o Flatten([k \in 1..Len(keys) |->
               <<32, 32, 32, 32>> \o jsonString(keys[k]) \o <<58, 32>>
               \o jsonValue(jsonCell(names, row, keys[k]))
               \o (IF k < Len(keys) THEN <<44>> ELSE <<>>) \o <<10>>])
         \o <<32, 32, 125>>

JSONText(names, rs) ==
    IF Len(rs) = 0 THEN <<91, 93>>
    ELSE <<91, 10>>
         \o Flatten([r \in 1..Len(rs) |->
               <<32, 32>> \o jsonObject(names, rs[r])
               \o (IF r < Len(rs) THEN <<44>> ELSE <<>>) \o <<10>>])
         \o <<93>>

RenderJSON == Returns(JSONText(fieldNames, rows))

\* escape of RenderHTML: &, <, > and " replaced in this order.
htmlEscapeText(s) ==
    ReplaceAll(ReplaceAll(ReplaceAll(ReplaceAll(s,
        38, <<38, 97, 109, 112, 59>>),
        60, <<38, 108, 116, 59>>),
        62, <<38, 103, 116, 59>>),
        34, <<38, 113, 117, 111, 116, 59>>)

HTMLText(names, rs) ==
    <<60, 116, 97, 98, 108, 101, 32, 98, 111, 114, 100, 101, 114, 61, 34, 49, 34,
      62, 10, 60, 116, 114, 62>>
    \o Flatten([c \in 1..Len(names) |->
          <<60, 116, 104, 62>> \o htmlEscapeText(names[c]) \o <<60, 47, 116, 104, 62>>])
    \o <<60, 47, 116, 114, 62, 10>>
    \o Flatten([r \in 1..Len(rs) |->
          <<60, 116, 114, 62>>
          \o Flatten([c \in 1..Len(rs[r]) |->
                <<60, 116, 100, 62>> \o htmlEscapeText(Sprintf(rs[r][c]))
                \o <<60, 47, 116, 100, 62>>])
          \o <<60, 47, 116, 114, 62, 10>>])
    \o <<60, 47, 116, 97, 98, 108, 101, 62>>

RenderHTML == Returns(HTMLText(fieldNames, rows))

\* escape of RenderLaTeX: ten ReplaceAll calls, each on the result of the one
\* before: \ first, then _ & % $ # { } ~ ^.
latexEscapeText(s) ==
    LET s1 == ReplaceAll(s, 92, <<92, 116, 101, 120, 116, 98, 97, 99, 107, 115, 108,
                                  97, 115, 104, 123, 125>>)
        s2 == ReplaceAll(s1, 95, <<92, 95>>)
        s3 == ReplaceAll(s2, 38, <<92, 38>>)
        s4 == ReplaceAll(s3, 37, <<92, 37>>)
        s5 == ReplaceAll(s4, 36, <<92, 36>>)
        s6 == ReplaceAll(s5, 35, <<92, 35>>)
        s7 == ReplaceAll(s6, 123, <<92, 123>>)
        s8 == ReplaceAll(s7, 125, <<92, 125>>)
        s9 == ReplaceAll(s8, 126, <<92, 116, 101, 120, 116, 97, 115, 99, 105, 105, 116,
                                    105, 108, 100, 101, 123, 125>>)
    IN  ReplaceAll(s9, 94, <<92, 116, 101, 120, 116, 97, 115, 99, 105, 105, 99, 105,
                             114, 99, 117, 109, 123, 125>>)

\* The cells of a LaTeX line, " & " between them, then " \ \hline" and a newline.
latexLine(texts) ==
    Flatten([c \in 1..Len(texts) |->
        latexEscapeText(texts[c]) \o (IF c < Len(texts) THEN <<32, 38, 32>> ELSE <<>>)])
    \o <<32, 92, 32, 92, 104, 108, 105, 110, 101, 10>>

LaTeXText(names, rs) ==
    <<92, 98, 101, 103, 105, 110, 123, 116, 97, 98, 117, 108, 97, 114, 125, 123, 124>>
    \o Repeat(<<108, 124>>, Len(names))
    \o <<125, 10, 92, 104, 108, 105, 110, 101, 10>>
    \o latexLine(names)
    \o Flatten([r \in 1..Len(rs) |-> latexLine(RowTexts(rs[r]))])
    \o <<92, 101, 110, 100, 123, 116, 97, 98, 117, 108, 97, 114, 125>>

RenderLaTeX == Returns(LaTeXText(fieldNames, rows))

MediaWikiText(names, rs) ==
    <<123, 124, 32, 99, 108, 97, 115, 115, 61, 34, 119, 105, 107, 105, 116, 97, 98,
      108, 101, 34, 10, 124, 45>>
    \o Flatten([c \in 1..Len(names) |-> <<33, 32>> \o names[c] \o <<32>>])
    \o <<10>>
    \o Flatten([r \in 1..Len(rs) |->
          <<124, 45>>
          \o Flatten([c \in 1..Len(rs[r]) |-> <<124, 32>> \o Sprintf(rs[r][c]) \o <<32>>])
          \o <<10>>])
    \o <<124, 125>>

RenderMediaWiki == Returns(MediaWikiText(fieldNames, rows))

(***************************************************************************)
(* GetFormattedString, and the render calls as steps.                      *)
(***************************************************************************)

\* strings.ToLower on ASCII letters.
ToLower(s) == [i \in 1..Len(s) |-> IF s[i] \in 65..90 THEN s[i] + 32 ELSE s[i]]

FormatText == <<116, 101, 120, 116>>
FormatASCII == <<97, 115, 99, 105, 105>>
FormatCSV == <<99, 115, 118>>
FormatJSON == <<106, 115, 111, 110>>
FormatHTML == <<104, 116, 109, 108>>
FormatLaTeX == <<108, 97, 116, 101, 120>>
FormatMediaWiki == <<109, 101, 100, 105, 97, 119, 105, 107, 105>>
FormatMarkdown == <<109, 97, 114, 107, 100, 111, 119, 110>>

GetFormattedStringExact(format, tie) ==
    CASE format = FormatText \/ format = FormatASCII -> RenderASCII(tie)
      [] format = FormatCSV -> RenderCSV
      [] format = FormatJSON -> RenderJSON
      [] format = FormatHTML -> RenderHTML
      [] format = FormatLaTeX -> RenderLaTeX
      [] format = FormatMediaWiki -> RenderMediaWiki
      [] format = FormatMarkdown -> RenderMarkdown
      [] OTHER -> RenderASCII(tie)

GetFormattedString(format, tie) ==
    LET f == ToLower(format) IN
    CASE f = FormatText \/ f = FormatASCII -> RenderASCII(tie)
      [] f = FormatCSV -> RenderCSV
      [] f = FormatJSON -> RenderJSON
      [] f = FormatHTML -> RenderHTML
      [] f = FormatLaTeX -> RenderLaTeX
      [] f = FormatMediaWiki -> RenderMediaWiki
      [] f = FormatMarkdown -> RenderMarkdown
      [] OTHER -> RenderASCII(tie)

\* The format names callers pass: "CSV" and the unknown "xml".
FormatInputs == {<<67, 83, 86>>, <<120, 109, 108>>}

\* A call of a renderer that reads only the table: the table stays as it is.
Rendered(name, result) ==
    /\ call' = name
    /\ err' = "nil"
    /\ out' = result
    /\ UNCHANGED <<table, config, sortTie>>

\* A call of a renderer that runs the pipeline: what the sort leaves in t.rows.
RenderedSorted(name, result) ==
    /\ call' = name
    /\ err' = "nil"
    /\ out' = result
    /\ rows' = IF result.panic \/ Len(fieldNames) = 0 THEN rows
               ELSE StoredRows(WorkingRows(sortTie).rows)
    /\ UNCHANGED <<fieldNames, config, sortTie>>

CallRenderASCIIAnyTie ==
    \E tie \in TieOrders : RenderedSorted("RenderASCII", RenderASCII(tie))
CallRenderASCII == RenderedSorted("RenderASCII", RenderASCII(sortTie))
CallRenderUnicode == RenderedSorted("RenderUnicode", RenderUnicode(sortTie))
CallRenderMarkdown == Rendered("RenderMarkdown", RenderMarkdown)
CallRenderCSV == Rendered("RenderCSV", RenderCSV)
CallRenderJSON == Rendered("RenderJSON", RenderJSON)
CallRenderHTML == Rendered("RenderHTML", RenderHTML)
CallRenderLaTeX == Rendered("RenderLaTeX", RenderLaTeX)
CallRenderMediaWiki == Rendered("RenderMediaWiki", RenderMediaWiki)
\* The formats GetFormattedString hands to RenderASCII.
RunsRenderASCII(format) ==
    ToLower(format) \notin {FormatCSV, FormatJSON, FormatHTML, FormatLaTeX,
                            FormatMediaWiki, FormatMarkdown}
CallGetFormattedString(format) ==
    IF RunsRenderASCII(format)
    THEN RenderedSorted("GetFormattedString", GetFormattedString(format, sortTie))
    ELSE Rendered("GetFormattedString", GetFormattedString(format, sortTie))

\* RenderText returns t.RenderASCII().
RenderText(tie) == RenderASCII(tie)
CallRenderText == RenderedSorted("RenderText", RenderText(sortTie))

Renders ==
    \/ CallRenderASCII
    \/ CallRenderUnicode
    \/ CallRenderMarkdown
    \/ CallRenderCSV
    \/ CallRenderJSON
    \/ CallRenderHTML
    \/ CallRenderLaTeX
    \/ CallRenderMediaWiki

(***************************************************************************)
(* Spec: a table made by a constructor and used through the whole public   *)
(* surface: mutations, SetFieldNames, the display configuration and the    *)
(* renderers.                                                              *)
(***************************************************************************)
AlignInputs == {AlignRight}
SortByInputs == {NameA}

Init ==
    /\ sortTie \in TieOrders
    /\ \/ NewTable
       \/ \E fields \in FieldInputs : NewTableWithFields(fields)

Mutations ==
    \/ \E row \in RowInputs : AddRow(row)
    \/ \E field \in Names, column \in ColumnInputs : AddColumn(field, column)
    \/ \E index \in IndexInputs : DelRow(index)
    \/ \E field \in Names : DelColumn(field)
    \/ ClearRows
    \/ Clear

Settings ==
    \/ \E fields \in FieldInputs : SetFieldNames(fields)
    \/ \E align \in AlignInputs : SetAlign(NameA, align)
    \/ \E align \in AlignInputs : SetAlignAll(align)
    \/ \E field \in SortByInputs, reverse \in BOOLEAN : SetSortBy(field, reverse)
    \/ \E filter \in {"nil"} \cup Predicates : SetRowFilter(filter)

Next ==
    \/ Mutations
    \/ Settings
    \/ Renders
    \/ \E format \in FormatInputs : CallGetFormattedString(format)

Spec == Init /\ [][Next]_vars

(***************************************************************************)
(* SpecPipeline: a two-column table filled by AddRow, with a sort key and  *)
(* a filter set and changed between calls of the two renderers that run    *)
(* the pipeline.                                                           *)
(***************************************************************************)
InitPipeline ==
    /\ sortTie \in TieOrders
    /\ \E fields \in Names \X Names : NewTableWithFields(fields)

NextPipeline ==
    \/ \E row \in RowInputs : AddRow(row)
    \/ \E field \in Names, reverse \in BOOLEAN : SetSortBy(field, reverse)
    \/ \E filter \in {"nil"} \cup Predicates : SetRowFilter(filter)
    \/ CallRenderASCII
    \/ CallRenderUnicode

SpecPipeline == InitPipeline /\ [][NextPipeline]_vars

(***************************************************************************)
(* SpecTable: a table made by a constructor and changed by the six         *)
(* mutation operations.                                                    *)
(***************************************************************************)
InitTable ==
    /\ sortTie = StableTie
    /\ \/ NewTable
       \/ \E fields \in FieldInputs : NewTableWithFields(fields)

NextTable == Mutations

SpecTable == InitTable /\ [][NextTable]_vars

(***************************************************************************)
(* Properties of the mutation layer.                                       *)
(***************************************************************************)

\* Every stored row is as long as the list of field names.
WellFormed == \A i \in 1..Len(rows) : Len(rows[i]) = Len(fieldNames)

\* C1: in every state reached from a constructor by AddRow, AddColumn, DelRow,
\* DelColumn, ClearRows and Clear, a table that holds at least one row has only
\* rows whose length is the number of field names.
C1_RowLengthInvariant == Len(rows) > 0 => WellFormed

\* C2: AddRow(values) returns an error exactly when the table has a field name
\* and len(values) differs from the number of field names; otherwise the row
\* becomes the last stored row, the earlier rows and the field names staying.
C2_AddRow ==
    [][\A row \in RowInputs : AddRow(row) =>
        /\ (err' # "nil") <=> (Len(fieldNames) > 0 /\ Len(row) # Len(fieldNames))
        /\ err' = "nil" =>
            /\ Len(rows') = Len(rows) + 1
            /\ rows'[Len(rows')] = row
            /\ \A i \in 1..Len(rows) : rows'[i] = rows[i]
            /\ fieldNames' = fieldNames]_vars

\* AddRow has just stored a second row of another length in a table without
\* field names.
C2_Witness ==
    /\ call = "AddRow"
    /\ err = "nil"
    /\ fieldNames = <<>>
    /\ Len(rows) = 2
    /\ Len(rows[1]) # Len(rows[2])

\* C3: AddColumn(name, values) returns an error exactly when rows are stored
\* and len(values) differs from their count; on success name is the last field
\* name, and either no row was stored and row i is now [values[i]], or
\* values[i] is the new last element of row i, the rows keeping their order.
C3_AddColumn ==
    [][\A field \in Names, column \in ColumnInputs : AddColumn(field, column) =>
        /\ (err' # "nil") <=> (Len(rows) > 0 /\ Len(column) # Len(rows))
        /\ err' = "nil" =>
            /\ Len(fieldNames') = Len(fieldNames) + 1
            /\ fieldNames'[Len(fieldNames')] = field
            /\ \A k \in 1..Len(fieldNames) : fieldNames'[k] = fieldNames[k]
            /\ Len(rows') = Len(column)
            /\ \A i \in 1..Len(column) :
                IF Len(rows) = 0
                THEN rows'[i] = <<column[i]>>
                ELSE /\ Len(rows'[i]) = Len(rows[i]) + 1
                     /\ rows'[i][Len(rows'[i])] = column[i]
                     /\ \A k \in 1..Len(rows[i]) : rows'[i][k] = rows[i][k]]_vars

\* AddColumn has just made the rows of a table that had none.
C3_Witness ==
    /\ call = "AddColumn"
    /\ err = "nil"
    /\ Len(fieldNames) = 1
    /\ Len(rows) = 2
    /\ rows[1] # rows[2]

\* C4: DelRow(index) returns an error exactly when index < 0 or index >= the
\* number of rows; on success the rows are the earlier rows without the one at
\* index, in their order, and the field names stay.
C4_DelRow ==
    [][\A index \in IndexInputs : DelRow(index) =>
        /\ (err' # "nil") <=> (index < 0 \/ index >= Len(rows))
        /\ err' = "nil" =>
            /\ Len(rows') = Len(rows) - 1
            /\ \A i \in 1..Len(rows') :
                rows'[i] = IF i <= index THEN rows[i] ELSE rows[i + 1]
            /\ fieldNames' = fieldNames]_vars

\* DelRow has just removed a row and left one.
C4_Witness ==
    /\ call = "DelRow"
    /\ err = "nil"
    /\ Len(rows) = 1

\* C5: DelColumn(name) returns an error exactly when no field name equals
\* name; on success, with i the first index of name, field name i is removed
\* and, in a table whose rows all have the length of the field names, so is
\* value i of every row: what stood before i stays, what stood after i moves
\* one to the left, and the number of rows stays.
C5_DelColumn ==
    [][\A field \in Names : DelColumn(field) =>
        /\ (err' # "nil") <=> (\A k \in 1..Len(fieldNames) : fieldNames[k] # field)
        /\ err' = "nil" =>
            LET i == CHOOSE k \in 1..Len(fieldNames) :
                        /\ fieldNames[k] = field
                        /\ \A j \in 1..(k - 1) : fieldNames[j] # field
            IN  /\ Len(fieldNames') = Len(fieldNames) - 1
                /\ \A k \in 1..Len(fieldNames') :
                    fieldNames'[k] = IF k < i THEN fieldNames[k] ELSE fieldNames[k + 1]
                /\ Len(rows') = Len(rows)
                /\ WellFormed =>
                    \A r \in 1..Len(rows) :
                        /\ Len(rows'[r]) = Len(rows[r]) - 1
                        /\ \A k \in 1..Len(rows'[r]) :
                            rows'[r][k] = IF k < i THEN rows[r][k]
                                          ELSE rows[r][k + 1]]_vars

\* DelColumn has just removed a column of a table with rows and left a column.
C5_Witness ==
    /\ call = "DelColumn"
    /\ err = "nil"
    /\ Len(fieldNames) = 1
    /\ Len(rows) = 2
    /\ WellFormed

(***************************************************************************)
(* Rendering.                                                              *)
(***************************************************************************)
RenderCalls ==
    {"RenderASCII", "RenderUnicode", "RenderMarkdown", "RenderCSV", "RenderJSON",
     "RenderHTML", "RenderLaTeX", "RenderMediaWiki", "GetFormattedString"}
PipelineCalls == {"RenderASCII", "RenderUnicode"}

\* C6: in every state reached through the public operations, a call of
\* RenderASCII, RenderUnicode, RenderMarkdown, RenderCSV, RenderJSON,
\* RenderHTML, RenderLaTeX, RenderMediaWiki or GetFormattedString returns a
\* string: none ends in an index out of range or another fault.
C6_RenderersNeverFail == call \in RenderCalls => ~out.panic

\* C7: a render call, whatever filter, sort key and direction are set, leaves
\* the field names, the stored rows with their order, the alignment map, the
\* sort key with its direction and the filter as they were before the call.
C7_RenderKeepsTable ==
    [][call' \in RenderCalls =>
        /\ fieldNames' = fieldNames
        /\ rows' = rows
        /\ alignments' = alignments
        /\ sortBy' = sortBy
        /\ reverseSort' = reverseSort
        /\ rowFilter' = rowFilter]_vars

\* RenderASCII has just shown all the stored rows in another order than the
\* stored one.
C7_Witness ==
    /\ call = "RenderASCII"
    /\ ~out.panic
    /\ rowFilter = "nil"
    /\ Len(rows) = 2
    /\ WellFormed
    /\ out.text = ASCIIText(<<rows[2], rows[1]>>)
    /\ out.text # ASCIIText(rows)

\* The column of the sort key: the first one carrying its name.
HasKeyColumn == \E k \in 1..Len(fieldNames) : fieldNames[k] = sortBy
KeyColumn ==
    CHOOSE k \in 1..Len(fieldNames) :
        /\ fieldNames[k] = sortBy
        /\ \A j \in 1..(k - 1) : fieldNames[j] # sortBy
KeyText(row) == Sprintf(row[KeyColumn])

\* The stored rows the filter accepts, in stored order.
Kept == IF rowFilter = "nil" THEN rows
        ELSE SelectSeq(rows, LAMBDA r : CallFilter(rowFilter, r))

Perms(n) == {p \in [1..n -> 1..n] : \A i, j \in 1..n : p[i] = p[j] => i = j}
Arranged(rs, p) == [k \in 1..Len(rs) |-> rs[p[k]]]

\* ws runs by key text: never down when ascending, never up when reversed.
Ordered(ws) ==
    \A i \in 1..(Len(ws) - 1) :
        IF reverseSort THEN ~StrLess(KeyText(ws[i]), KeyText(ws[i + 1]))
        ELSE ~StrLess(KeyText(ws[i + 1]), KeyText(ws[i]))

\* ws is the filtered rows, then sorted by the key when a field carries it.
IsWorkingSet(ws) ==
    IF HasKeyColumn
    THEN \E p \in Perms(Len(Kept)) : ws = Arranged(Kept, p) /\ Ordered(ws)
    ELSE ws = Kept

\* What a renderer writes for the data rows ws under the current field names.
TextOf(name, ws) ==
    CASE name = "RenderASCII" -> ASCIIText(ws)
      [] name = "RenderUnicode" -> UnicodeText(ws)
      [] name = "RenderMarkdown" -> MarkdownText(fieldNames, ws)
      [] name = "RenderCSV" -> CSVText(fieldNames, ws)
      [] name = "RenderJSON" -> JSONText(fieldNames, ws)
      [] name = "RenderHTML" -> HTMLText(fieldNames, ws)
      [] name = "RenderLaTeX" -> LaTeXText(fieldNames, ws)
      [] name = "RenderMediaWiki" -> MediaWikiText(fieldNames, ws)

\* C8: with a filter and/or a sort key set, each of the eight renderers emits
\* the filtered-then-sorted rows: on a table with fields whose rows all have
\* their length, its output is its format of one working row sequence.
C8_RenderersUseWorkingRows ==
    (call \in RenderCalls \ {"GetFormattedString"} /\ Len(fieldNames) > 0 /\ WellFormed) =>
        \E p \in Perms(Len(Kept)) :
            /\ IsWorkingSet(Arranged(Kept, p))
            /\ out = Returns(TextOf(call, Arranged(Kept, p)))

\* C9: when a field carries the sort key, the data rows of RenderASCII and of
\* RenderUnicode are the filtered rows in an order that runs by the %v text of
\* the first column with that name, compared as byte strings: never down when
\* the reverse flag is false, never up when it is true.
C9_SortedByText ==
    (call \in PipelineCalls /\ HasKeyColumn) =>
        \E p \in Perms(Len(Kept)) :
            /\ Ordered(Arranged(Kept, p))
            /\ out = Returns(TextOf(call, Arranged(Kept, p)))

\* RenderASCII, sorting ascending by A, has just put the row with 10 before
\* the stored first row with 9.
C9_Witness ==
    /\ call = "RenderASCII"
    /\ sortBy = NameA
    /\ ~reverseSort
    /\ rowFilter = "nil"
    /\ fieldNames[1] = NameA
    /\ Len(rows) = 2
    /\ rows[1][1] = IntVal(9)
    /\ rows[2][1] = IntVal(10)
    /\ out = Returns(ASCIIText(<<rows[2], rows[1]>>))

\* C10: the sort is stable: rows of equal key text are shown in the order the
\* filtered stored rows have them, ascending or reversed.
C10_SortIsStable ==
    (call \in PipelineCalls /\ HasKeyColumn) =>
        \E p \in Perms(Len(Kept)) :
            /\ Ordered(Arranged(Kept, p))
            /\ \A i, j \in 1..Len(Kept) :
                (i < j /\ KeyText(Kept[p[i]]) = KeyText(Kept[p[j]])) => p[i] < p[j]
            /\ out = Returns(TextOf(call, Arranged(Kept, p)))

\* C11: with a row predicate and no sort key set, the data rows of RenderASCII
\* and of RenderUnicode are the stored rows the predicate accepts, in stored
\* order, each once; with the predicate nil they are all the stored rows.
C11_FilterOnly ==
    (call \in PipelineCalls /\ sortBy = <<>>) => out = Returns(TextOf(call, Kept))

\* RenderASCII has just shown the one row of two that the predicate accepts.
C11_Witness ==
    /\ call = "RenderASCII"
    /\ sortBy = <<>>
    /\ rowFilter = "first10"
    /\ Len(rows) = 2
    /\ rows[1][1] = IntVal(10)
    /\ rows[2][1] = IntVal(9)
    /\ out = Returns(ASCIIText(<<rows[1]>>))

(***************************************************************************)
(* SpecCompose: a table with the fields A and B that AddRow fills with up  *)
(* to MaxSortRows rows, sorted by A in either direction, with the filter   *)
(* set and cleared, and rendered by RenderASCII and RenderUnicode.         *)
(***************************************************************************)
InitCompose ==
    /\ sortTie \in TieOrdersOf(MaxSortRows)
    /\ NewTableWithFields(<<NameA, NameB>>)

NextCompose ==
    \/ \E row \in [1..2 -> Values] : AddRowUpTo(row, MaxSortRows)
    \/ \E reverse \in BOOLEAN : SetSortBy(NameA, reverse)
    \/ \E filter \in {"nil"} \cup Predicates : SetRowFilter(filter)
    \/ CallRenderASCII
    \/ CallRenderUnicode

SpecCompose == InitCompose /\ [][NextCompose]_vars

\* All the stored rows sorted by the key as the renderer sorts, then the rows
\* of that sequence the predicate accepts.
SortedThenFiltered ==
    LET sorted == IF HasKeyColumn THEN SortSlice(rows, KeyColumn - 1, sortTie) ELSE rows
    IN  IF rowFilter = "nil" THEN sorted
        ELSE SelectSeq(sorted, LAMBDA r : CallFilter(rowFilter, r))

\* C12: filter and sort commute: the rows RenderASCII and RenderUnicode show,
\* filtered and then sorted, are the rows got by sorting all the stored rows
\* and then keeping those the predicate accepts.
C12_FilterSortCommute ==
    call \in PipelineCalls => out = Returns(TextOf(call, SortedThenFiltered))

\* C13: with a sort key that no current field name equals (never one, or the
\* column deleted or the fields renamed since), RenderASCII and RenderUnicode
\* return as with no sort key: the rows the filter keeps in stored order, on
\* every table whose kept rows have no more cells than there are field names.
C13_UnmatchedKeySkipsSort ==
    (/\ call \in PipelineCalls
     /\ sortBy # <<>>
     /\ ~HasKeyColumn
     /\ \A i \in 1..Len(Kept) : Len(Kept[i]) <= Len(fieldNames)) =>
        out = IF Len(fieldNames) = 0 THEN Returns(NoFields)
              ELSE Returns(TextOf(call, Kept))

\* RenderASCII, with the sort key A set and B the only field, has just shown
\* 9 before 10, the stored order, where sorting would have put 10 first.
C13_Witness ==
    /\ call = "RenderASCII"
    /\ sortBy = NameA
    /\ fieldNames = <<NameB>>
    /\ rowFilter = "nil"
    /\ rows = <<<<IntVal(9)>>, <<IntVal(10)>>>>
    /\ out = Returns(ASCIIText(rows))

(***************************************************************************)
(* SpecLayout: a table of one or two columns whose names and cells have    *)
(* texts of several widths, in bytes and in code points; AddRow fills it,  *)
(* SetFieldNames renames its columns, the filter and the alignments are    *)
(* set, and RenderASCII and RenderUnicode draw it. No sort key is set, so  *)
(* the order sort.Slice gives to ties is never read.                       *)
(***************************************************************************)
\* "A", and "éé": four bytes, two code points.
NameEE == <<195, 169, 195, 169>>
LayoutNames == {NameA, NameEE}
\* 9, 10, and "é": two bytes, one code point.
LayoutValues == {IntVal(9), IntVal(10), StrVal(<<195, 169>>)}
LayoutAligns == {AlignCenter, AlignRight}
LayoutFields == SeqsUpTo(LayoutNames, 2) \ {<<>>}

InitLayout ==
    /\ sortTie = StableTie
    /\ \E fields \in LayoutFields : NewTableWithFields(fields)

NextLayout ==
    \/ \E row \in SeqsUpTo(LayoutValues, 2) : AddRow(row)
    \/ \E fields \in LayoutFields : Len(fields) = Len(fieldNames) /\ SetFieldNames(fields)
    \/ \E filter \in {"nil"} \cup Predicates : SetRowFilter(filter)
    \/ \E field \in LayoutNames, align \in LayoutAligns : SetAlign(field, align)
    \/ CallRenderASCII
    \/ CallRenderUnicode

SpecLayout == InitLayout /\ [][NextLayout]_vars

\* The number of code points of a UTF-8 text, read off its lead bytes.
RECURSIVE CodePoints(_)
CodePoints(s) ==
    IF Len(s) = 0 THEN 0
    ELSE LET n == IF s[1] < 128 THEN 1
                  ELSE IF s[1] < 224 THEN 2
                  ELSE IF s[1] < 240 THEN 3 ELSE 4
         IN  1 + CodePoints(SubSeq(s, n + 1, Len(s)))

\* The width of a text for the renderer called name.
WidthFor(name, s) == IF name = "RenderUnicode" THEN CodePoints(s) ELSE Len(s)

\* The greatest width among name c and the cells c of the kept rows.
ClaimedWidth(name, c) ==
    LET ws == {WidthFor(name, fieldNames[c])} \cup
              {WidthFor(name, Sprintf(Kept[r][c])) : r \in 1..Len(Kept)}
    IN  CHOOSE m \in ws : \A x \in ws : x <= m
ClaimedWidths(name) == [c \in 1..Len(fieldNames) |-> ClaimedWidth(name, c)]

\* n copies of the text s.
RECURSIVE Copies(_, _)
Copies(s, n) == IF n = 0 THEN <<>> ELSE s \o Copies(s, n - 1)

\* A border line over columns of the widths w: the fill repeated w[c] + 2
\* times per column, a junction before, between and after the runs.
RECURSIVE BorderRuns(_, _, _, _)
BorderRuns(w, fill, inner, last) ==
    IF Len(w) = 0 THEN <<>>
    ELSE Copies(fill, w[1] + 2) \o (IF Len(w) = 1 THEN last ELSE inner)
         \o BorderRuns(Tail(w), fill, inner, last)
Border(w, first, fill, inner, last) == first \o BorderRuns(w, fill, inner, last)

\* The lines of a text: its pieces between newlines.
RECURSIVE Lines(_)
Lines(text) ==
    IF \E i \in 1..Len(text) : text[i] = 10
    THEN LET i == CHOOSE k \in 1..Len(text) :
                      text[k] = 10 /\ \A j \in 1..(k - 1) : text[j] # 10
         IN  <<SubSeq(text, 1, i - 1)>> \o Lines(SubSeq(text, i + 1, Len(text)))
    ELSE <<text>>

\* The first border line for the renderer called name.
TopBorder(name, w) ==
    IF name = "RenderUnicode"
    THEN Border(w, <<226, 148, 140>>, <<226, 148, 128>>, <<226, 148, 172>>, <<226, 148, 144>>)
    ELSE Border(w, <<43>>, <<45>>, <<43>>, <<43>>)

\* C14: on a table with fields whose rows all have their length, the width of
\* column c is the greatest of the width of field name c and the widths of
\* the cell texts of column c in the rows the filter keeps, in bytes for
\* RenderASCII and in code points for RenderUnicode: the first border line
\* has a run of that width + 2 per column.
C14_ColumnWidths ==
    call \in PipelineCalls =>
        /\ ~out.panic
        /\ Lines(out.text)[1] = TopBorder(call, ClaimedWidths(call))

\* RenderASCII has just drawn columns of the widths 2 and 1 while the row the
\* filter rejects holds a cell of width 2 in the second column.
C14_Witness ==
    /\ call = "RenderASCII"
    /\ fieldNames = <<NameA, NameA>>
    /\ rowFilter = "first10"
    /\ rows = <<<<IntVal(9), IntVal(10)>>, <<IntVal(10), IntVal(9)>>>>
    /\ Lines(out.text)[1] = <<43, 45, 45, 45, 45, 43, 45, 45, 45, 43>>

(***************************************************************************)
(* SpecPad: calls of padAlign and padAlignUnicode on texts of several      *)
(* widths, with every target width up to MaxPadWidth and every alignment.  *)
(***************************************************************************)
\* "", "9", "10", "é" and "éé".
PadTexts == {<<>>, <<57>>, <<49, 48>>, <<195, 169>>, NameEE}
Alignments == {AlignLeft, AlignCenter, AlignRight}

CallPadAlign(s, w, align) == Rendered("padAlign", Returns(padAlign(s, w, align)))
CallPadAlignUnicode(s, w, align) ==
    Rendered("padAlignUnicode", Returns(padAlignUnicode(s, w, align)))

InitPad ==
    /\ sortTie = StableTie
    /\ NewTable

NextPad ==
    \/ \E s \in PadTexts, w \in 0..MaxPadWidth, align \in Alignments :
        CallPadAlign(s, w, align)
    \/ \E s \in PadTexts, w \in 0..MaxPadWidth, align \in Alignments :
        CallPadAlignUnicode(s, w, align)

SpecPad == InitPad /\ [][NextPad]_vars

\* r is s padded to w columns, s being width columns wide: s itself when it
\* is wide enough, else s with w - width spaces: after it for Left, before it
\* for Right, and for Center half of them, rounded down, before it.
Padded(r, s, w, align, width) ==
    IF width >= w THEN r = s
    ELSE LET pad == w - width
             left == IF align = AlignRight THEN pad
                     ELSE IF align = AlignCenter THEN pad \div 2
                     ELSE 0
         IN  r = Copies(<<32>>, left) \o s \o Copies(<<32>>, pad - left)

\* C15: padAlign (widths in bytes) and padAlignUnicode (widths in code
\* points) return s unchanged when it is at least w wide, and otherwise s
\* with exactly w - width(s) spaces: all after s for Left, all before s for
\* Right, floor(pad/2) before and the rest after for Center; the result is
\* max(w, width(s)) wide.
C15_Padding ==
    [][\A s \in PadTexts, w \in 0..MaxPadWidth, align \in Alignments :
        /\ CallPadAlign(s, w, align) =>
            /\ Padded(out'.text, s, w, align, Len(s))
            /\ Len(out'.text) = IF w > Len(s) THEN w ELSE Len(s)
        /\ CallPadAlignUnicode(s, w, align) =>
            /\ Padded(out'.text, s, w, align, CodePoints(s))
            /\ CodePoints(out'.text) = IF w > CodePoints(s) THEN w ELSE CodePoints(s)]_vars

\* padAlign has just centred "9" in four columns: one space before, two after.
C15_Witness ==
    /\ call = "padAlign"
    /\ out = Returns(<<32, 57, 32, 32>>)

\* The border line after the header and the last border line.
MidBorder(name, w) ==
    IF name = "RenderUnicode"
    THEN Border(w, <<226, 148, 156>>, <<226, 148, 128>>, <<226, 148, 188>>, <<226, 148, 164>>)
    ELSE Border(w, <<43>>, <<45>>, <<43>>, <<43>>)
BottomBorder(name, w) ==
    IF name = "RenderUnicode"
    THEN Border(w, <<226, 148, 148>>, <<226, 148, 128>>, <<226, 148, 180>>, <<226, 148, 152>>)
    ELSE Border(w, <<43>>, <<45>>, <<43>>, <<43>>)

\* A border line starts with a junction character: + or one of the corners
\* and tees that open a line of the box; a header or data line starts with
\* the bar.
IsBorderLine(name, l) ==
    IF name = "RenderUnicode"
    THEN Len(l) >= 3 /\ SubSeq(l, 1, 3) \in {<<226, 148, 140>>, <<226, 148, 156>>, <<226, 148, 148>>}
    ELSE Len(l) >= 1 /\ l[1] = 43

\* C16: for a table with fields, the output of RenderASCII and of
\* RenderUnicode has exactly three border lines, the first line, the third
\* (after the header) and the last; each is, per column c, a run of
\* columnWidth(c) + 2 fill characters, with a junction before, between and
\* after the runs.
C16_BorderLines ==
    call \in PipelineCalls =>
        LET ls == Lines(out.text)
            w == ClaimedWidths(call)
        IN  /\ ~out.panic
            /\ Len(ls) = Len(Kept) + 4
            /\ {i \in 1..Len(ls) : IsBorderLine(call, ls[i])} = {1, 3, Len(ls)}
            /\ ls[1] = TopBorder(call, w)
            /\ ls[3] = MidBorder(call, w)
            /\ ls[Len(ls)] = BottomBorder(call, w)

\* RenderUnicode has just drawn a table of one column and two rows.
C16_Witness ==
    /\ call = "RenderUnicode"
    /\ Len(fieldNames) = 1
    /\ rowFilter = "nil"
    /\ Len(rows) = 2
    /\ Len(Lines(out.text)) = 6
    /\ IsBorderLine(call, Lines(out.text)[6])

\* The alignment stored for a field name, Left when none is stored.
StoredAlign(field) ==
    IF \E e \in alignments : e[1] = field
    THEN (CHOOSE e \in alignments : e[1] = field)[2]
    ELSE AlignLeft

\* s padded to w columns for the renderer called name.
PadTo(name, s, w, align) ==
    LET width == WidthFor(name, s)
        pad == w - width
        left == IF align = AlignRight THEN pad
                ELSE IF align = AlignCenter THEN pad \div 2
                ELSE 0
    IN  IF width >= w THEN s
        ELSE Copies(<<32>>, left) \o s \o Copies(<<32>>, pad - left)

\* The cells c.. of a header or data line: each text between two spaces,
\* padded by the alignment stored for the name of its column, then the bar.
RECURSIVE AlignedCells(_, _, _, _)
AlignedCells(name, texts, c, bar) ==
    IF c > Len(texts) THEN <<>>
    ELSE <<32>>
         \o PadTo(name, texts[c], ClaimedWidth(name, c), StoredAlign(fieldNames[c]))
         \o <<32>> \o bar \o AlignedCells(name, texts, c + 1, bar)
AlignedLine(name, texts) ==
    LET bar == IF name = "RenderUnicode" THEN <<226, 148, 130>> ELSE <<124>>
    IN  bar \o AlignedCells(name, texts, 1, bar)

\* C17: alignment goes by field name, not by position: the header and every
\* cell of a column are padded with the alignment stored for the column's
\* current name, and with Left when none is stored for it; so a renamed column
\* is drawn Left, and columns of one name are aligned alike.
C17_AlignmentByName ==
    call \in PipelineCalls =>
        LET ls == Lines(out.text) IN
        /\ ~out.panic
        /\ ls[2] = AlignedLine(call, fieldNames)
        /\ \A r \in 1..Len(Kept) :
            ls[3 + r] = AlignedLine(call, [c \in 1..Len(Kept[r]) |-> Sprintf(Kept[r][c])])

\* RenderASCII has just drawn the column "éé" Left, the only alignment stored
\* being Right for the name "A".
C17_Witness ==
    /\ call = "RenderASCII"
    /\ alignments = {<<NameA, AlignRight>>}
    /\ fieldNames = <<NameEE>>
    /\ rowFilter = "nil"
    /\ rows = <<<<IntVal(9)>>>>
    /\ Lines(out.text)[4] = <<124, 32, 57, 32, 32, 32, 32, 124>>

DelimiterNames ==
    {NameA, <<65, 32>>, <<65, 32, 124, 32, 65>>, <<65, 32, 33, 32, 65>>}
DelimiterFields == SeqsUpTo(DelimiterNames, MaxCols) \ {<<>>}

\* Well-formed tables under such names, renamed column by column and rendered
\* in every format, with no filter, sort key or alignment set.
InitDelimiter ==
    /\ sortTie = StableTie
    /\ \E fields \in DelimiterFields : NewTableWithFields(fields)

NextDelimiter ==
    \/ \E row \in RowInputs : AddRow(row)
    \/ \E fields \in DelimiterFields :
          Len(fields) = Len(fieldNames) /\ SetFieldNames(fields)
    \/ CallRenderASCII
    \/ CallRenderUnicode
    \/ CallRenderMarkdown
    \/ CallRenderCSV
    \/ CallRenderJSON
    \/ CallRenderHTML
    \/ CallRenderLaTeX
    \/ CallRenderMediaWiki

SpecDelimiter == InitDelimiter /\ [][NextDelimiter]_vars

\* What the renderer called name returns for the table a step leads to.
RenderedNext(name) ==
    CASE name = "RenderASCII" -> Returns(ASCIIText(Kept))'
      [] name = "RenderUnicode" -> Returns(UnicodeText(Kept))'
      [] name = "RenderMarkdown" -> Returns(MarkdownText(fieldNames', rows'))
      [] name = "RenderCSV" -> Returns(CSVText(fieldNames', rows'))
      [] name = "RenderJSON" -> Returns(JSONText(fieldNames', rows'))
      [] name = "RenderHTML" -> Returns(HTMLText(fieldNames', rows'))
      [] name = "RenderLaTeX" -> Returns(LaTeXText(fieldNames', rows'))
      [] name = "RenderMediaWiki" -> Returns(MediaWikiText(fieldNames', rows'))

\* C19: a well-formed table with at least one field and one row, once
\* rendered, and the table got from it by renaming columns (same number of
\* fields, same rows, some field name different) never have the same output in
\* that format.
C19_RenderersInjective ==
    [][\A name \in RenderCalls \ {"GetFormattedString"} :
          (/\ call = name
           /\ ~out.panic
           /\ WellFormed
           /\ Len(fieldNames) > 0
           /\ Len(rows) > 0
           /\ call' = "SetFieldNames"
           /\ Len(fieldNames') = Len(fieldNames)
           /\ fieldNames' # fieldNames)
          => RenderedNext(name) # out]_vars

\* C20: ClearRows leaves no row and the field names as they were, in their
\* order; Clear leaves no row and no field name; an AddRow that follows
\* ClearRows returns an error exactly when a field name is kept and the row's
\* length differs from the number of kept names, and stores the row as the only
\* row otherwise.
C20_ClearRowsAndClear ==
    [][/\ ClearRows => (rows' = <<>> /\ fieldNames' = fieldNames)
       /\ Clear => (rows' = <<>> /\ fieldNames' = <<>>)
       /\ call = "ClearRows" =>
            \A row \in RowInputs : AddRow(row) =>
                /\ (err' # "nil") <=>
                       (Len(fieldNames) > 0 /\ Len(row) # Len(fieldNames))
                /\ rows' = IF err' = "nil" THEN <<row>> ELSE <<>>
                /\ fieldNames' = fieldNames]_vars

\* ClearRows has just emptied a table that keeps its two field names.
C20_Witness ==
    /\ call = "ClearRows"
    /\ rows = <<>>
    /\ Len(fieldNames) = 2

(***************************************************************************)
(* SpecFormat: tables filled by AddRow with rows as long as the field      *)
(* names and rendered through GetFormattedString, under format names of    *)
(* every case, and RenderText.                                             *)
(***************************************************************************)
\* "text", "ASCII", "Csv", "jSON", "HTML", "LaTeX", "MediaWiki", "MARKDOWN",
\* "xml" and "".
FormatNames ==
    {<<116, 101, 120, 116>>,
     <<65, 83, 67, 73, 73>>,
     <<67, 115, 118>>,
     <<106, 83, 79, 78>>,
     <<72, 84, 77, 76>>,
     <<76, 97, 84, 101, 88>>,
     <<77, 101, 100, 105, 97, 87, 105, 107, 105>>,
     <<77, 65, 82, 75, 68, 79, 87, 78>>,
     <<120, 109, 108>>,
     <<>>}

NextFormat ==
    \/ \E row \in RowInputs :
          Len(row) = Len(fieldNames) /\ AddRowUpTo(row, MaxFormatRows)
    \/ \E format \in FormatNames : CallGetFormattedString(format)
    \/ CallRenderText

SpecFormat == InitTable /\ [][NextFormat]_vars

\* a and b are the same text when the case of ASCII letters is ignored.
EqualFold(a, b) ==
    /\ Len(a) = Len(b)
    /\ \A i \in 1..Len(a) :
          \/ a[i] = b[i]
          \/ a[i] \in 65..90 /\ b[i] = a[i] + 32
          \/ b[i] \in 65..90 /\ a[i] = b[i] + 32

\* The renderer the format name stands for, called on the table as it is.
NamedRender(format) ==
    IF EqualFold(format, FormatText) \/ EqualFold(format, FormatASCII)
    THEN RenderASCII(sortTie)
    ELSE IF EqualFold(format, FormatCSV) THEN RenderCSV
    ELSE IF EqualFold(format, FormatJSON) THEN RenderJSON
    ELSE IF EqualFold(format, FormatHTML) THEN RenderHTML
    ELSE IF EqualFold(format, FormatLaTeX) THEN RenderLaTeX
    ELSE IF EqualFold(format, FormatMediaWiki) THEN RenderMediaWiki
    ELSE IF EqualFold(format, FormatMarkdown) THEN RenderMarkdown
    ELSE RenderASCII(sortTie)

\* C21: GetFormattedString(name) returns what the renderer named by name,
\* compared without regard to case, returns, and what RenderASCII returns for
\* every other name; on a well-formed table with fields that is a non-empty
\* string; RenderText returns what RenderASCII returns.
C21_FormatSelection ==
    [][/\ \A format \in FormatNames : CallGetFormattedString(format) =>
            /\ out' = NamedRender(format)
            /\ (Len(fieldNames) > 0 /\ WellFormed) =>
                   (~out'.panic /\ out'.text # <<>>)
       /\ CallRenderText => out' = RenderASCII(sortTie)]_vars

\* GetFormattedString("Csv") has just returned the CSV text of a table with a row.
C21_Witness ==
    /\ call = "GetFormattedString"
    /\ Len(fieldNames) > 0
    /\ Len(rows) > 0
    /\ WellFormed
    /\ out = RenderCSV

(***************************************************************************)
(* SpecMarkdown: well-formed tables of one or two columns whose cells are  *)
(* the int 9 and the strings "foo" and "x\ny" (a line feed inside),         *)
(* with alignments set, rendered by RenderMarkdown.                        *)
(***************************************************************************)
MarkdownValues ==
    {IntVal(9), StrVal(<<102, 111, 111>>), StrVal(<<120, 10, 121>>)}

InitMarkdown ==
    /\ sortTie = StableTie
    /\ \E fields \in FieldInputs \ {<<>>} : NewTableWithFields(fields)

NextMarkdown ==
    \/ \E row \in SeqsUpTo(MarkdownValues, MaxCols) : AddRow(row)
    \/ \E align \in LayoutAligns : SetAlign(NameA, align)
    \/ CallRenderMarkdown

SpecMarkdown == InitMarkdown /\ [][NextMarkdown]_vars

\* s without the white space at its two ends.
IsSpace(b) == b \in {9, 10, 11, 12, 13, 32}
RECURSIVE TrimSpace(_)
TrimSpace(s) ==
    IF Len(s) > 0 /\ IsSpace(s[1]) THEN TrimSpace(Tail(s))
    ELSE IF Len(s) > 0 /\ IsSpace(s[Len(s)]) THEN TrimSpace(SubSeq(s, 1, Len(s) - 1))
    ELSE s

\* "| t1 | ... | tn |"
RECURSIVE PipeJoined(_)
PipeJoined(texts) ==
    IF Len(texts) = 0 THEN <<>>
    ELSE <<32>> \o Head(texts) \o <<32, 124>> \o PipeJoined(Tail(texts))
PipeLine(texts) == <<124>> \o PipeJoined(texts)

\* C22: for a well-formed table with n >= 1 fields and m rows RenderMarkdown
\* returns m + 2 lines which, trimmed, are the header "| f1 | ... | fn |", the
\* separator of n "---" entries and one line "| v1 | ... | vn |" per row in
\* order, whatever alignments are set.
C22_MarkdownLines ==
    (call = "RenderMarkdown" /\ Len(fieldNames) >= 1 /\ WellFormed) =>
        LET ls == Lines(out.text) IN
        /\ ~out.panic
        /\ Len(ls) = Len(rows) + 2
        /\ TrimSpace(ls[1]) = PipeLine(fieldNames)
        /\ TrimSpace(ls[2]) = PipeLine([c \in 1..Len(fieldNames) |-> <<45, 45, 45>>])
        /\ \A r \in 1..Len(rows) : TrimSpace(ls[r + 2]) = PipeLine(RowTexts(rows[r]))

(***************************************************************************)
(* SpecLaTeX: one-column tables whose field name and cell are texts over   *)
(* the ten characters RenderLaTeX escapes and the letter a, rendered by    *)
(* RenderLaTeX.                                                            *)
(***************************************************************************)
\* \ _ & % $ # { } ~ ^
LaTeXSpecials == {92, 95, 38, 37, 36, 35, 123, 125, 126, 94}
LaTeXTexts == SeqsUpTo(LaTeXSpecials \cup {97}, MaxEscapeLen)

InitLaTeX ==
    /\ sortTie = StableTie
    /\ \E name \in LaTeXTexts : NewTableWithFields(<<name>>)

NextLaTeX ==
    \/ \E b \in LaTeXSpecials \cup {97} : AddRowUpTo(<<StrVal(<<b>>)>>, MaxFormatRows)
    \/ CallRenderLaTeX

SpecLaTeX == InitLaTeX /\ [][NextLaTeX]_vars

\* The escape sequence of one character of the original text.
EscapeOf(b) ==
    IF b = 92 THEN <<92, 116, 101, 120, 116, 98, 97, 99, 107, 115, 108, 97, 115, 104,
                     123, 125>>
    ELSE IF b = 126 THEN <<92, 116, 101, 120, 116, 97, 115, 99, 105, 105, 116, 105, 108,
                           100, 101, 123, 125>>
    ELSE IF b = 94 THEN <<92, 116, 101, 120, 116, 97, 115, 99, 105, 105, 99, 105, 114,
                          99, 117, 109, 123, 125>>
    ELSE IF b \in LaTeXSpecials THEN <<92, b>>
    ELSE <<b>>

\* s with every character replaced by its escape sequence, once.
EscapedOnce(s) == Flatten([i \in 1..Len(s) |-> EscapeOf(s[i])])

\* " \ \hline"
HLine == <<32, 92, 32, 92, 104, 108, 105, 110, 101>>

\* C23: in RenderLaTeX's output the header line and every row line hold the
\* original text with each of the ten special characters replaced by its own
\* escape sequence exactly once, nothing a replacement wrote being escaped
\* again.
C23_LaTeXEscapesOnce ==
    (call = "RenderLaTeX" /\ Len(fieldNames) = 1 /\ WellFormed) =>
        LET ls == Lines(out.text) IN
        /\ ls[3] = EscapedOnce(fieldNames[1]) \o HLine
        /\ \A r \in 1..Len(rows) :
              ls[r + 3] = EscapedOnce(Sprintf(rows[r][1])) \o HLine

(***************************************************************************)
(* SpecImport: FromCSV with an explicit delimiter, called by a program     *)
(* that holds no table yet, on inputs of up to MaxRecords records of one   *)
(* to MaxCols fields; the table it returns is then filled by AddRow and    *)
(* drawn by RenderASCII. The input is given as the records csv.Reader      *)
(* splits it into.                                                         *)
(***************************************************************************)
\* The records of the input: the one-field records "A" and "9", and the
\* records "A,A", ... of two to MaxCols fields.
CsvRecords ==
    {<<NameA>>, <<(<<57>>)>>} \cup {[i \in 1..n |-> NameA] : n \in 2..MaxCols}
CsvInputs == SeqsUpTo(CsvRecords, MaxRecords)

\* csv.Reader.ReadAll with FieldsPerRecord = 0: the first record sets the
\* number of fields, and a later record of another length is ErrFieldCount.
ReadAllNeverFails(records) == FALSE
ReadAllFails(records) ==
    \E i \in 2..Len(records) : Len(records[i]) # Len(records[1])

\* The loop over records[1:]: table.AddRow(rowAny) with its error dropped.
RECURSIVE FromCSVRows(_, _)
FromCSVRows(fields, records) ==
    IF Len(records) = 0 THEN <<>>
    ELSE LET row == [i \in 1..Len(Head(records)) |-> StrVal(Head(records)[i])]
             rest == FromCSVRows(fields, Tail(records))
         IN  IF Len(fields) > 0 /\ Len(row) # Len(fields) THEN rest
             ELSE <<row>> \o rest

FromCSV(records) ==
    /\ call = "NewTable"
    /\ call' = "FromCSV"
    /\ out' = NoOutput
    /\ IF ReadAllFails(records)
       THEN /\ err' = "ErrFieldCount"
            /\ fieldNames' = <<>>
            /\ rows' = <<>>
       ELSE IF Len(records) = 0
       THEN /\ err' = "EmptySource"
            /\ fieldNames' = <<>>
            /\ rows' = <<>>
       ELSE /\ err' = "nil"
            /\ fieldNames' = Head(records)
            /\ rows' = FromCSVRows(Head(records), Tail(records))
    /\ UNCHANGED <<config, sortTie>>

InitImport ==
    /\ sortTie = StableTie
    /\ NewTable

NextImport ==
    \/ \E records \in CsvInputs : FromCSV(records)
    \/ \E row \in RowInputs : AddRow(row)
    \/ CallRenderASCII

SpecImport == InitImport /\ [][NextImport]_vars

\* The records as rows of strings.
StringRows(records) ==
    [r \in 1..Len(records) |-> [c \in 1..Len(records[r]) |-> StrVal(records[r][c])]]

\* The table FromCSV is to return for records: the first record as field
\* names, the others as rows of strings, in order, every row as long as the
\* field names.
ImportsAll(records) ==
    /\ fieldNames' = Head(records)
    /\ rows' = StringRows(Tail(records))
    /\ WellFormed'

\* C24, as stated: FromCSV returns an error and no table exactly when the
\* input has zero records, and otherwise the table of all the records.
C24_FromCSVAsStated ==
    [][\A records \in CsvInputs : FromCSV(records) =>
        /\ (err' # "nil") <=> (Len(records) = 0)
        /\ Len(records) = 0 => (fieldNames' = <<>> /\ rows' = <<>>)
        /\ Len(records) > 0 => ImportsAll(records)]_vars

\* C24, amended: FromCSV returns an error and no table when the input has
\* zero records or a record whose number of fields differs from the first
\* record's; otherwise it returns the table of all the records: the first
\* record as field names, the others as rows of strings in input order, every
\* row as long as the field names, none dropped.
C24_FromCSV ==
    [][\A records \in CsvInputs : FromCSV(records) =>
        LET ragged == \E i \in 1..Len(records) : Len(records[i]) # Len(records[1]) IN
        /\ (err' # "nil") <=> (Len(records) = 0 \/ ragged)
        /\ err' # "nil" => (fieldNames' = <<>> /\ rows' = <<>>)
        /\ err' = "nil" => ImportsAll(records)]_vars

\* FromCSV has just returned a table of two different rows of strings.
C24_Witness ==
    /\ call = "FromCSV"
    /\ err = "nil"
    /\ Len(rows) = 2
    /\ rows[1] # rows[2]
    /\ rows[1][1].kind = "string"

(***************************************************************************)
(* SpecRagged: the six mutation operations and SetFieldNames, which gives  *)
(* a table more field names than some row has values.                      *)
(***************************************************************************)
NextRagged ==
    \/ Mutations
    \/ \E fields \in FieldInputs : SetFieldNames(fields)

SpecRagged == InitTable /\ [][NextRagged]_vars

\* C25: when DelColumn(name) succeeds with first matching index i, every row
\* of length at most i stays as it was, every longer row loses exactly its
\* element at index i, and the rows keep their number and order, also on a
\* table whose rows differ in length.
C25_DelColumnRagged ==
    [][\A field \in Names : (DelColumn(field) /\ err' = "nil") =>
        LET i == IndexOf(fieldNames, field) IN
        /\ Len(rows') = Len(rows)
        /\ \A r \in 1..Len(rows) :
              IF Len(rows[r]) <= i THEN rows'[r] = rows[r]
              ELSE /\ Len(rows'[r]) = Len(rows[r]) - 1
                   /\ \A k \in 1..Len(rows'[r]) :
                         rows'[r][k] = IF k <= i THEN rows[r][k] ELSE rows[r][k + 1]]_vars

\* DelColumn has just removed a column of a table with two field names and
\* left rows of differing lengths, one of them without any value.
C25_Witness ==
    /\ call = "DelColumn"
    /\ err = "nil"
    /\ Len(fieldNames) = 1
    /\ Len(rows) = 2
    /\ Len(rows[1]) = 0
    /\ Len(rows[2]) = 1

(***************************************************************************)
(* SpecConfigured: the six mutation operations and SetFieldNames on a      *)
(* table that was constructed and then given an alignment, a sort key, a   *)
(* direction and a filter: the state after NewTableWithFields(fields),     *)
(* SetAlign("A", AlignRight), SetSortBy("A", true) and SetRowFilter.       *)
(***************************************************************************)
InitConfigured ==
    /\ sortTie = StableTie
    /\ fieldNames \in FieldInputs
    /\ rows = <<>>
    /\ alignments = {<<NameA, AlignRight>>}
    /\ sortBy = NameA
    /\ reverseSort = TRUE
    /\ rowFilter = "first10"
    /\ call = "SetRowFilter"
    /\ err = "nil"
    /\ out = NoOutput

SpecConfigured == InitConfigured /\ [][NextRagged]_vars

FailingMutations == {"AddRow", "AddColumn", "DelRow", "DelColumn"}

\* C26: when AddRow, AddColumn, DelRow or DelColumn returns an error, the
\* field names, the rows, the alignment map, the sort key, the direction and
\* the filter are what they were before the call.
C26_FailingMutationNoOp ==
    [][(call' \in FailingMutations /\ err' # "nil") =>
        /\ fieldNames' = fieldNames
        /\ rows' = rows
        /\ alignments' = alignments
        /\ sortBy' = sortBy
        /\ reverseSort' = reverseSort
        /\ rowFilter' = rowFilter]_vars

\* AddColumn has just failed on a table with rows, an alignment, a sort key
\* and a filter.
C26_Witness ==
    /\ call = "AddColumn"
    /\ err # "nil"
    /\ Len(rows) > 0
    /\ alignments # {}
    /\ sortBy # <<>>
    /\ rowFilter # "nil"

\* C27: from a table with at least one field name and one row whose rows all
\* have the length of the field names, every successful AddRow, AddColumn,
\* DelRow and DelColumn leads to a table whose rows all have the length of the
\* field names.
C27_WellFormedPreserved ==
    [][(/\ Len(fieldNames) >= 1
        /\ Len(rows) >= 1
        /\ WellFormed
        /\ call' \in FailingMutations
        /\ err' = "nil") => WellFormed']_vars

\* AddColumn has just given a second column to two rows.
C27_Witness ==
    /\ call = "AddColumn"
    /\ err = "nil"
    /\ Len(fieldNames) = 2
    /\ Len(rows) = 2
    /\ WellFormed

DataMutations ==
    {"AddRow", "AddColumn", "DelRow", "DelColumn", "ClearRows", "Clear", "SetFieldNames"}

\* C28: AddRow, AddColumn, DelRow, DelColumn, ClearRows, Clear and
\* SetFieldNames, failing or not, leave the alignment map, the sort key, the
\* reverse flag and the row filter as they were, so a column added again under
\* an earlier name finds the alignment, sort key and filter stored before.
C28_ConfigSurvives ==
    [][call' \in DataMutations =>
        /\ alignments' = alignments
        /\ sortBy' = sortBy
        /\ reverseSort' = reverseSort
        /\ rowFilter' = rowFilter]_vars

\* AddColumn has just made "A" the only column of a table without field
\* names (after Clear or DelColumn); the alignment of "A", the sort key "A",
\* the reverse flag and the filter are the ones set at the start.
C28_Witness ==
    /\ call = "AddColumn"
    /\ err = "nil"
    /\ fieldNames = <<NameA>>
    /\ Len(rows) > 0
    /\ alignments = {<<NameA, AlignRight>>}
    /\ sortBy = NameA
    /\ reverseSort
    /\ rowFilter = "first10"

(***************************************************************************)
(* SpecDisplay: the two-column table of SpecPipeline, with DelRow called    *)
(* between the calls of the renderers that filter and sort.                *)
(***************************************************************************)
NextDisplay ==
    \/ NextPipeline
    \/ \E index \in IndexInputs : DelRow(index)

SpecDisplay == InitPipeline /\ [][NextDisplay]_vars

\* C29: RenderASCII and RenderUnicode, showing the rows filtered and sorted,
\* leave the stored rows in their order; DelRow(index), called after them,
\* returns an error exactly when index is outside [0, number of stored rows),
\* however many rows the filter keeps, and otherwise removes the stored row at
\* index, the other stored rows keeping their order.
C29_DelRowStoredOrder ==
    [][/\ call' \in PipelineCalls => rows' = rows
       /\ \A index \in IndexInputs : (call \in PipelineCalls /\ DelRow(index)) =>
            /\ (err' # "nil") <=> (index < 0 \/ index >= Len(rows))
            /\ err' = "nil" =>
                  /\ Len(rows') = Len(rows) - 1
                  /\ \A i \in 1..Len(rows') :
                        rows'[i] = IF i <= index THEN rows[i] ELSE rows[i + 1]]_vars

\* DelRow has just removed a stored row while a sort key and a filter are
\* set, and left a row that the filter does not show.
C29_Witness ==
    /\ call = "DelRow"
    /\ err = "nil"
    /\ sortBy # <<>>
    /\ rowFilter # "nil"
    /\ Len(rows) = 1
    /\ Kept = <<>>

(***************************************************************************)
(* SpecLines: well-formed tables of one or two columns whose cells are 10, *)
(* "é" and "x\ny" (a line feed inside), with alignments, the filter and a  *)
(* sort key set, drawn by RenderASCII and RenderUnicode.                   *)
(***************************************************************************)
LineValues == {IntVal(10), StrVal(<<195, 169>>), StrVal(<<120, 10, 121>>)}

NextLines ==
    \/ \E row \in SeqsUpTo(LineValues, 2) : AddRow(row)
    \/ \E filter \in {"nil"} \cup Predicates : SetRowFilter(filter)
    \/ \E field \in LayoutNames, align \in LayoutAligns : SetAlign(field, align)
    \/ \E reverse \in BOOLEAN : SetSortBy(NameA, reverse)
    \/ CallRenderASCII
    \/ CallRenderUnicode

SpecLines == InitLayout /\ [][NextLines]_vars

RECURSIVE SumOf(_)
SumOf(w) == IF Len(w) = 0 THEN 0 ELSE Head(w) + SumOf(Tail(w))

\* C30: for a well-formed table with n >= 1 fields the output of RenderASCII
\* and of RenderUnicode has (number of working rows) + 4 lines, and every line
\* is 1 + the sum over the columns of (column width + 3) wide: in bytes for
\* RenderASCII, in code points for RenderUnicode.
C30_LinesOfEqualWidth ==
    (call \in PipelineCalls /\ Len(fieldNames) >= 1 /\ WellFormed) =>
        LET ls == Lines(out.text)
            w == ClaimedWidths(call)
        IN  /\ ~out.panic
            /\ Len(ls) = Len(Kept) + 4
            /\ \A l \in 1..Len(ls) :
                  WidthFor(call, ls[l]) = 1 + SumOf([c \in 1..Len(w) |-> w[c] + 3])

====
